---- MODULE Spec2Model ----
(***************************************************************************)
(* A model of the keyed time queue (timequeue.Queue) and of the Schedule   *)
(* built on it.  The queue is a slice of pointers to queueItem objects     *)
(* kept as a binary min-heap by container/heap, plus a map from key to     *)
(* the same queueItem pointers.  Indices are the 0-based indices of the    *)
(* Go code; the TLA+ sequence holding the slice is read at index i + 1.    *)
(***************************************************************************)
EXTENDS Integers, Sequences, FiniteSets, TLC

(* ---------------------------- bounds ----------------------------------- *)

\* Spec: the largest number of operations scheduled at once
MaxItems == 3

\* Spec: the clock is advanced no further than this
MaxTime == 2

\* Spec: the largest Delay() an operation reports
MaxDelay == 1

\* SpecDeep: the largest number of operations scheduled at once; seven items
\* fill a heap of three levels, where a removal can need a sift up
DeepItems == 7

\* SpecDeep: the largest Delay() an operation reports (the clock stands still)
DeepDelay == 2

\* SpecBackoff: the largest number of Delay() calls on the backoff
MaxCalls == 10

Keys == {"k0", "k1", "k2"}

DeepKeys == Keys \cup {"k3", "k4", "k5", "k6"}

\* an Operation exposes Key() and Delay(); the operation itself is the value
\* stored in the queue
Ops == [key : Keys, delay : 0..MaxDelay]

\* the position of a key in the enumeration k0, k1, ...
KeyNo == [k \in DeepKeys |-> CHOOSE n \in 0..6 :
            k = <<"k0", "k1", "k2", "k3", "k4", "k5", "k6">>[n + 1]]

\* SpecDeep schedules one fixed operation per key, as the tests do
DeepOps == {[key |-> k, delay |-> KeyNo[k] % (DeepDelay + 1)] : k \in DeepKeys}

\* the times a caller may pass to Ready
Times == 0..(MaxTime + MaxDelay)

DeepTimes == 0..DeepDelay

NoKey == "-"

VARIABLES
    now,        \* the clock's current time (clock.Now())
    items,      \* Queue.items: the slice of *queueItem, as addresses
    obj,        \* the queueItem objects, by address: [i, key, value, t]
    m,          \* Queue.m: key -> address of its queueItem
    call,       \* the last call made: [op, key, t], whether it found its key
                \* enqueued, and which way a removal sifted the moved item
    err,        \* "" or the panic raised by the last call
    ready,      \* the slice returned by the last Ready call
    popped,     \* the queueItems the last Ready call popped, in pop order
    next,       \* the result of the last Next call: [nil, d]
    pending,    \* history: keys added and since neither removed nor returned
    e,          \* the ExponentialBackoff of the operation with key BKey
    delays,     \* history: what each Delay() call on it returned, in order
    clean,      \* history: every Delay() call so far was made by an Add that
                \* scheduled the operation
    sched,      \* history: for each scheduled key, the clock.Now() and the
                \* Delay() of the Add that scheduled it
    added       \* the result of the last Add: [void, t]

vars == <<now, items, obj, m, call, err, ready, popped, next, pending,
          e, delays, clean, sched, added>>

Range(f) == {f[x] : x \in DOMAIN f}

(* ----------------------- queueItems (sort/heap.Interface) -------------- *)
\* A heap value h is [s |-> slice of addresses, o |-> objects by address].

Len_(h) == Len(h.s)

Less(h, i, j) == h.o[h.s[i + 1]].t < h.o[h.s[j + 1]].t

\* Swap that leaves the items' recorded indices alone
SwapNoIndex(h, i, j) ==
    [s |-> [h.s EXCEPT ![i + 1] = h.s[j + 1], ![j + 1] = h.s[i + 1]], o |-> h.o]

Swap(h, i, j) ==
    LET s1 == [h.s EXCEPT ![i + 1] = h.s[j + 1], ![j + 1] = h.s[i + 1]]
        o1 == [h.o EXCEPT ![s1[i + 1]].i = i]
        o2 == [o1 EXCEPT ![s1[j + 1]].i = j]
    IN  [s |-> s1, o |-> o2]

Push(h, x) ==
    [s |-> Append(h.s, x), o |-> [h.o EXCEPT ![x].i = Len(h.s)]]

\* returns the shortened heap and the address taken off its end
Pop(h) ==
    LET n == Len(h.s) - 1
    IN  [h |-> [s |-> SubSeq(h.s, 1, n), o |-> h.o], x |-> h.s[n + 1]]

(* ----------------------------- container/heap -------------------------- *)

\* Go's integer division truncates toward zero: (0 - 1) / 2 = 0
GoDiv(a, b) == IF a >= 0 THEN a \div b ELSE -((-a) \div b)

\* up with its swap left out
upNoSwap(h, j) == h

RECURSIVE up(_, _)
up(h, j) ==
    LET i == GoDiv(j - 1, 2)
    IN  IF i = j \/ ~Less(h, j, i)
        THEN h
        ELSE up(Swap(h, i, j), i)

\* down that always descends to the left child
RECURSIVE downLoopLeft(_, _, _)
downLoopLeft(h, i, n) ==
    LET j1 == 2 * i + 1
    IN  IF j1 >= n \/ j1 < 0
        THEN [h |-> h, i |-> i]
        ELSE IF ~Less(h, j1, i)
             THEN [h |-> h, i |-> i]
             ELSE downLoopLeft(Swap(h, i, j1), j1, n)

\* the loop of heap.down: returns the heap and the final position
RECURSIVE downLoop(_, _, _)
downLoop(h, i, n) ==
    LET j1 == 2 * i + 1
        j2 == j1 + 1
        j  == IF j2 < n /\ Less(h, j2, j1) THEN j2 ELSE j1
    IN  IF j1 >= n \/ j1 < 0
        THEN [h |-> h, i |-> i]
        ELSE IF ~Less(h, j, i)
             THEN [h |-> h, i |-> i]
             ELSE downLoop(Swap(h, i, j), j, n)

down(h, i0, n) ==
    LET r == downLoop(h, i0, n)
    IN  [h |-> r.h, moved |-> r.i > i0]

heapPush(h, x) ==
    LET h1 == Push(h, x)
    IN  up(h1, Len_(h1) - 1)

heapPop(h) ==
    LET n  == Len_(h) - 1
        h1 == Swap(h, 0, n)
        h2 == down(h1, 0, n).h
    IN  Pop(h2)

\* heap.Remove that only sifts down
heapRemoveNoUp(h, i) ==
    LET n  == Len_(h) - 1
        h1 == Swap(h, i, n)
        d  == down(h1, i, n)
    IN  IF n # i THEN Pop(d.h) ELSE Pop(h)

\* heap.Remove that takes the last element off, whatever i is
heapRemoveLast(h, i) == Pop(h)

heapRemove(h, i) ==
    LET n  == Len_(h) - 1
        h1 == Swap(h, i, n)
        d  == down(h1, i, n)
        h2 == IF ~d.moved THEN up(d.h, i) ELSE d.h
    IN  IF n # i THEN Pop(h2) ELSE Pop(h)

(* ------------------------------ objects -------------------------------- *)

delete(mm, k) == [x \in DOMAIN mm \ {k} |-> mm[x]]

\* item := &queueItem{...}: a new object, at an address no live object has
NewAddr(o) == CHOOSE a \in 1..(Cardinality(DOMAIN o) + 1) : a \notin DOMAIN o

RECURSIVE SortedSeq(_)
SortedSeq(S) ==
    IF S = {} THEN <<>>
    ELSE LET a == CHOOSE x \in S : \A y \in S : x <= y
         IN  <<a>> \o SortedSeq(S \ {a})

\* Objects no longer referenced from the slice or the map are garbage, and
\* addresses are not observable: the live objects are renumbered in the order
\* of the slice, followed by those only the map refers to.
Compact(q) ==
    LET ord == q.s \o SortedSeq(Range(q.m) \ Range(q.s))
        ren == [a \in Range(ord) |-> CHOOSE i \in 1..Len(ord) :
                    ord[i] = a /\ \A j \in 1..(i - 1) : ord[j] # a]
    IN  [s |-> [i \in 1..Len(q.s) |-> ren[q.s[i]]],
         o |-> [a \in Range(ren) |-> q.o[ord[a]]],
         m |-> [k \in DOMAIN q.m |-> ren[q.m[k]]]]

(* -------------------------------- Queue -------------------------------- *)
\* A queue value q is [s |-> items, o |-> objects, m |-> the key map].

NoSignal == [nil |-> TRUE, d |-> 0]

\* Queue.Next that looks for a second item
QueueNextOffByOne(q, clk) ==
    IF Len(q.s) > 1
    THEN [nil |-> FALSE, d |-> q.o[q.s[1]].t - clk]
    ELSE [nil |-> TRUE, d |-> 0]

QueueNext(q, clk) ==
    IF Len(q.s) > 0
    THEN [nil |-> FALSE, d |-> q.o[q.s[1]].t - clk]
    ELSE NoSignal

\* Queue.Ready that pops only items strictly before t
RECURSIVE ReadyLoopStrict(_, _, _, _)
ReadyLoopStrict(q, t, rdy, pop) ==
    IF Len(q.s) > 0 /\ q.o[q.s[1]].t < t
    THEN LET p    == heapPop([s |-> q.s, o |-> q.o])
             item == p.h.o[p.x]
         IN  ReadyLoopStrict([s |-> p.h.s, o |-> p.h.o, m |-> delete(q.m, item.key)],
                             t,
                             Append(rdy, item.value),
                             Append(pop, [key |-> item.key, value |-> item.value, t |-> item.t]))
    ELSE [q |-> q, ready |-> rdy, popped |-> pop]

RECURSIVE ReadyLoop(_, _, _, _)
ReadyLoop(q, t, rdy, pop) ==
    IF Len(q.s) > 0 /\ ~(q.o[q.s[1]].t > t)
    THEN LET p    == heapPop([s |-> q.s, o |-> q.o])
             item == p.h.o[p.x]
         IN  ReadyLoop([s |-> p.h.s, o |-> p.h.o, m |-> delete(q.m, item.key)],
                       t,
                       Append(rdy, item.value),
                       Append(pop, [key |-> item.key, value |-> item.value, t |-> item.t]))
    ELSE [q |-> q, ready |-> rdy, popped |-> pop]

QueueReady(q, t) == ReadyLoop(q, t, <<>>, <<>>)

\* Queue.Add that does not record the item in the map
QueueInsertNoIndex(q, key, value, t) ==
    LET x  == NewAddr(q.o)
        o1 == (x :> [i |-> 0, key |-> key, value |-> value, t |-> t]) @@ q.o
        h  == heapPush([s |-> q.s, o |-> o1], x)
    IN  [s |-> h.s, o |-> h.o, m |-> q.m]

\* Queue.Add past its duplicate check
QueueInsert(q, key, value, t) ==
    LET x  == NewAddr(q.o)
        o1 == (x :> [i |-> 0, key |-> key, value |-> value, t |-> t]) @@ q.o
        m1 == (key :> x) @@ q.m
        h  == heapPush([s |-> q.s, o |-> o1], x)
    IN  [s |-> h.s, o |-> h.o, m |-> m1]

QueueAddPanics(q, key) == key \in DOMAIN q.m

\* Queue.Add that inserts before it checks for a duplicate
QueueAddAlways(q, key, value, t) == QueueInsert(q, key, value, t)

QueueAdd(q, key, value, t) ==
    IF QueueAddPanics(q, key) THEN q ELSE QueueInsert(q, key, value, t)

\* Queue.Remove that leaves the key in the map
QueueRemoveKeepKey(q, key) ==
    IF key \in DOMAIN q.m
    THEN LET item == q.m[key]
             p    == heapRemove([s |-> q.s, o |-> q.o], q.o[item].i)
         IN  [s |-> p.h.s, o |-> p.h.o, m |-> q.m]
    ELSE q

\* Queue.Remove without the ok test: an absent key removes slot 0
QueueRemoveUnchecked(q, key) ==
    LET i == IF key \in DOMAIN q.m THEN q.o[q.m[key]].i ELSE 0
        p == heapRemove([s |-> q.s, o |-> q.o], i)
    IN  IF Len(q.s) = 0 THEN q
        ELSE [s |-> p.h.s, o |-> p.h.o, m |-> delete(q.m, key)]

QueueRemove(q, key) ==
    IF key \in DOMAIN q.m
    THEN LET item == q.m[key]
             p    == heapRemove([s |-> q.s, o |-> q.o], q.o[item].i)
         IN  [s |-> p.h.s, o |-> p.h.o, m |-> delete(q.m, key)]
    ELSE q

(* -------------------------- ExponentialBackoff ------------------------- *)
\* Durations are counted in seconds.

minRetryDelay == 30

maxRetryDelay == 1800

\* the largest time.Duration (2^63 - 1 nanoseconds), in whole minutes
MaxDurationMinutes == 153722867

\* Delay whose floor test is <= instead of <
DelayFloorInclusive(ee) ==
    [ret |-> ee,
     e   |-> IF ee <= minRetryDelay THEN minRetryDelay
             ELSE IF ee * 2 > maxRetryDelay THEN maxRetryDelay
             ELSE ee * 2]

\* Delay that returns the duration it has just stored
DelayPostUpdate(ee) ==
    LET n == IF ee < minRetryDelay THEN minRetryDelay
             ELSE IF ee * 2 > maxRetryDelay THEN maxRetryDelay
             ELSE ee * 2
    IN  [ret |-> n, e |-> n]

\* Delay without the ceiling
DelayNoCeiling(ee) ==
    [ret |-> ee,
     e   |-> IF ee < minRetryDelay THEN minRetryDelay ELSE ee * 2]

\* ExponentialBackoff.Delay on the stored duration ee: the value returned
\* and the duration stored afterwards
Delay(ee) ==
    [ret |-> ee,
     e   |-> IF ee < minRetryDelay THEN minRetryDelay
             ELSE IF ee * 2 > maxRetryDelay THEN maxRetryDelay
             ELSE ee * 2]

(* ------------------------------ Schedule ------------------------------- *)

\* the key of the operation that embeds the ExponentialBackoff
BKey == "key"

\* that operation, a pointer: the value the queue stores for BKey
BOp == [key |-> BKey, backoff |-> TRUE]

\* SpecBackoff: one plain operation key beside BKey
BackoffKeys == {"k0", BKey}

BackoffOps == [key : {"k0"}, delay : 0..MaxDelay]

BackoffTimes ==
    (0..(MaxTime + MaxDelay)) \cup {minRetryDelay + MaxTime, maxRetryDelay + MaxTime}

Q == [s |-> items, o |-> obj, m |-> m]

Call(op, key, t, found, sift) ==
    [op |-> op, key |-> key, t |-> t, found |-> found, sift |-> sift]

\* which of heap.Remove's two sifts moved the item put in the removed slot
Sifted(q, key) ==
    IF key \notin DOMAIN q.m THEN "none"
    ELSE LET h == [s |-> q.s, o |-> q.o]
             i == q.o[q.m[key]].i
             n == Len_(h) - 1
             d == down(Swap(h, i, n), i, n)
         IN  IF n = i THEN "none"
             ELSE IF d.moved THEN "down"
             ELSE IF up(d.h, i).s # d.h.s THEN "up"
             ELSE "none"

SetQ(q) ==
    LET c == Compact(q)
    IN  items' = c.s /\ obj' = c.o /\ m' = c.m

\* a call that returns no time
NoResult == [void |-> TRUE, t |-> 0]

\* what Schedule.Add hands back for the deadline t: its signature has no result
AddResult(t) == NoResult

\* sched without the keys ks
Forget(sc, ks) == [k \in DOMAIN sc \ ks |-> sc[k]]

Init ==
    /\ now = 0
    /\ items = <<>>
    /\ obj = <<>>
    /\ m = <<>>
    /\ call = Call("New", NoKey, 0, FALSE, "none")
    /\ err = ""
    /\ ready = <<>>
    /\ popped = <<>>
    /\ next = NoSignal
    /\ pending = {}
    /\ e = 0
    /\ delays = <<>>
    /\ clean = TRUE
    /\ sched = <<>>
    /\ added = NoResult

\* Schedule.Next
Next_ ==
    /\ next' = QueueNext(Q, now)
    /\ call' = Call("Next", NoKey, 0, FALSE, "none")
    /\ err' = ""
    /\ ready' = <<>>
    /\ popped' = <<>>
    /\ added' = NoResult
    /\ UNCHANGED <<now, items, obj, m, pending, e, delays, clean, sched>>

\* Schedule.Ready(t)
Ready(t) ==
    LET r == QueueReady(Q, t)
        returned == {r.popped[i].key : i \in 1..Len(r.popped)}
    IN  /\ SetQ(r.q)
        /\ ready' = r.ready
        /\ popped' = r.popped
        /\ call' = Call("Ready", NoKey, t, FALSE, "none")
        /\ err' = ""
        /\ next' = NoSignal
        /\ pending' = pending \ returned
        /\ sched' = Forget(sched, returned)
        /\ added' = NoResult
        /\ UNCHANGED <<now, e, delays, clean>>

\* the deadline without the clock's time
DeadlineNoClock(clk, delay) == delay

\* s.time.Now().Add(delay)
Deadline(clk, delay) == clk + delay

\* Schedule.Add once op.Key() and op.Delay() have been evaluated
ScheduleAdd(key, value, delay) ==
    LET t == Deadline(now, delay)
    IN  /\ SetQ(QueueAdd(Q, key, value, t))
        /\ err' = IF QueueAddPanics(Q, key) THEN "duplicate key" ELSE ""
        /\ call' = Call("Add", key, t, QueueAddPanics(Q, key), "none")
        /\ added' = IF QueueAddPanics(Q, key) THEN NoResult ELSE AddResult(t)
        /\ pending' = IF QueueAddPanics(Q, key) THEN pending ELSE pending \cup {key}
        /\ sched' = IF QueueAddPanics(Q, key) THEN sched
                    ELSE (key :> [at |-> now, delay |-> delay]) @@ sched
        /\ ready' = <<>>
        /\ popped' = <<>>
        /\ next' = NoSignal
        /\ UNCHANGED now

\* Schedule.Add(op) of a plain operation, whose Delay() reads a field
Add(op) ==
    /\ ScheduleAdd(op.key, op, op.delay)
    /\ UNCHANGED <<e, delays, clean>>

\* Delay evaluated only once the key is known to be free
DelayInAddAfterCheck(ee, panics) ==
    IF panics THEN [ret |-> ee, e |-> ee] ELSE Delay(ee)

\* Delay evaluated a second time
DelayInAddTwice(ee, panics) == Delay(Delay(ee).e)

\* op.Delay() as Schedule.Add evaluates it, whether or not the key is scheduled
DelayInAdd(ee, panics) == Delay(ee)

\* Schedule.Add(op) of the operation that embeds the ExponentialBackoff
AddBackoff ==
    LET d == DelayInAdd(e, QueueAddPanics(Q, BKey))
    IN  /\ ScheduleAdd(BKey, BOp, d.ret)
        /\ e' = d.e
        /\ delays' = Append(delays, d.ret)
        /\ clean' = (clean /\ ~QueueAddPanics(Q, BKey))

\* a call of the operation's Delay() from outside the schedule
BackoffDelay ==
    LET d == Delay(e)
    IN  /\ e' = d.e
        /\ delays' = Append(delays, d.ret)
        /\ clean' = FALSE
        /\ call' = Call("Delay", BKey, 0, FALSE, "none")
        /\ err' = ""
        /\ ready' = <<>>
        /\ popped' = <<>>
        /\ next' = NoSignal
        /\ added' = NoResult
        /\ UNCHANGED <<now, items, obj, m, pending, sched>>

\* Schedule.Remove(key)
Remove(key) ==
    /\ SetQ(QueueRemove(Q, key))
    /\ call' = Call("Remove", key, 0, key \in DOMAIN m, Sifted(Q, key))
    /\ err' = ""
    /\ pending' = pending \ {key}
    /\ sched' = Forget(sched, {key})
    /\ ready' = <<>>
    /\ popped' = <<>>
    /\ next' = NoSignal
    /\ added' = NoResult
    /\ UNCHANGED <<now, e, delays, clean>>

\* the owner of the clock moves time forward
Advance ==
    /\ now < MaxTime
    /\ now' = now + 1
    /\ call' = Call("Advance", NoKey, 0, FALSE, "none")
    /\ err' = ""
    /\ ready' = <<>>
    /\ popped' = <<>>
    /\ next' = NoSignal
    /\ added' = NoResult
    /\ UNCHANGED <<items, obj, m, pending, e, delays, clean, sched>>

\* an Add that would panic is always possible; one that inserts needs room
Room(key, n) == QueueAddPanics(Q, key) \/ Cardinality(DOMAIN obj) < n

Next ==
    \/ Next_
    \/ \E t \in Times : Ready(t)
    \/ \E op \in Ops : Room(op.key, MaxItems) /\ Add(op)
    \/ \E key \in Keys : Remove(key)
    \/ Advance

Spec == Init /\ [][Next]_vars

\* the same schedule with more keys and a clock that stands still
NextDeep ==
    \/ Next_
    \/ \E t \in DeepTimes : Ready(t)
    \/ \E op \in DeepOps : Room(op.key, DeepItems) /\ Add(op)
    \/ \E key \in DeepKeys : Remove(key)

SpecDeep == Init /\ [][NextDeep]_vars

\* a schedule of one plain operation and one operation with backoff
NextBackoff ==
    \/ Next_
    \/ \E t \in BackoffTimes : Ready(t)
    \/ \E op \in BackoffOps : Add(op)
    \/ Len(delays) < MaxCalls /\ AddBackoff
    \/ Len(delays) < MaxCalls /\ BackoffDelay
    \/ \E key \in BackoffKeys : Remove(key)
    \/ Advance

SpecBackoff == Init /\ [][NextBackoff]_vars

(* ------------------------------ properties ----------------------------- *)

\* the queueItem in slot i of the slice (0-based, as in the code)
At(i) == obj[items[i + 1]]

Slots == 0..(Len(items) - 1)

\* what is enqueued, as the set of (key, value, deadline) of the slice's items
Entry(it) == [key |-> it.key, value |-> it.value, t |-> it.t]

Contents == {Entry(At(i)) : i \in Slots}

ContentsAfter == {Entry(obj'[items'[i]]) : i \in 1..Len(items')}

KeysOf(S) == {c.key : c \in S}

SeqSet(sq) == {sq[i] : i \in 1..Len(sq)}

\* C1: every item in a non-root slot i of the slice has a deadline >= the
\* deadline of the item in its parent slot (i - 1) div 2.
C1_MinHeap ==
    \A i \in Slots : i > 0 => At(i).t >= At((i - 1) \div 2).t

\* a removal from a heap of three levels has just sifted the moved item up,
\* and items with different deadlines remain
C1_Witness ==
    /\ call.op = "Remove"
    /\ call.sift = "up"
    /\ Len(items) >= 5
    /\ \E i \in Slots : At(i).t > At(0).t

\* C2: the keys of the map m are exactly the keys of the items in the slice,
\* each map entry points at the slice item that carries that key, no two
\* slice items carry the same key, and the map is as large as the slice.
C2_KeyIndexBijection ==
    /\ DOMAIN m = {At(i).key : i \in Slots}
    /\ \A k \in DOMAIN m : m[k] \in Range(items) /\ obj[m[k]].key = k
    /\ \A i, j \in Slots : At(i).key = At(j).key => i = j
    /\ Cardinality(DOMAIN m) = Len(items)

\* a Ready call has returned some items and left others enqueued
C2_Witness ==
    /\ call.op = "Ready"
    /\ Len(popped) >= 1
    /\ Len(items) >= 2

\* C3: a Ready(now) call returns exactly the values of the items whose
\* deadline is <= now, removes exactly those from the slice and from the
\* map, and leaves every later item enqueued with its key, value and deadline.
C3_ReadyPartition ==
    [][call'.op = "Ready" =>
        LET due == {c \in Contents : c.t <= call'.t}
        IN  /\ SeqSet(popped') = due
            /\ Len(popped') = Cardinality(due)
            /\ SeqSet(ready') = {c.value : c \in due}
            /\ Len(ready') = Cardinality(due)
            /\ ContentsAfter = Contents \ due
            /\ Len(items') = Len(items) - Cardinality(due)
            /\ DOMAIN m' = DOMAIN m \ KeysOf(due)]_vars

\* a Ready call returned an item whose deadline equals the time passed, with
\* an earlier item, and left a later item enqueued
C3_Witness ==
    /\ call.op = "Ready"
    /\ \E i \in 1..Len(popped) : popped[i].t = call.t
    /\ \E i \in 1..Len(popped) : popped[i].t < call.t
    /\ Len(items) >= 1

\* C4: the items one Ready call returns are in non-decreasing order of the
\* deadline they were enqueued with.
C4_ReadyOrdered ==
    \A i, j \in 1..Len(popped) : i < j => popped[i].t <= popped[j].t

\* a Ready call has returned at least five items of three different deadlines
C4_Witness ==
    /\ call.op = "Ready"
    /\ Len(popped) >= 5
    /\ Cardinality({popped[i].t : i \in 1..Len(popped)}) >= 3

\* C5: the keys enqueued are the keys added, less those removed and those
\* returned by Ready since they were last added: nothing disappears unless
\* removed or returned, nothing appears unless added.
C5_NoLoss ==
    /\ DOMAIN m = pending
    /\ KeysOf(Contents) = pending
    /\ Len(items) = Cardinality(pending)

\* after a removal that found its key, other keys are still pending
C5_Witness ==
    /\ call.op = "Remove"
    /\ call.found
    /\ Cardinality(pending) >= 2

\* C6: an Add of a key that is enqueued panics with a duplicate-key error and
\* leaves the slice, every item and the map as they were, whatever the value
\* and the time are.
C6_DuplicateRejected ==
    [][(call'.op = "Add" /\ call'.key \in DOMAIN m) =>
        /\ err' = "duplicate key"
        /\ items' = items
        /\ obj' = obj
        /\ m' = m]_vars

\* an Add has panicked on a key enqueued with another deadline, while other
\* items are enqueued
C6_Witness ==
    /\ call.op = "Add"
    /\ err = "duplicate key"
    /\ Len(items) >= 2
    /\ \E i \in Slots : At(i).key = call.key /\ At(i).t # call.t

\* C7: Remove of a key that is not enqueued does not fail and leaves the
\* slice, the items and the map unchanged, also on an empty queue.
C7_AbsentRemoveNoOp ==
    [][(call'.op = "Remove" /\ call'.key \notin DOMAIN m) =>
        /\ err' = ""
        /\ items' = items
        /\ obj' = obj
        /\ m' = m]_vars

\* a Remove did not find its key in a queue that holds other items
C7_Witness ==
    /\ call.op = "Remove"
    /\ ~call.found
    /\ Len(items) >= 2

\* C8: Remove(k) of an enqueued key takes exactly k's item out and leaves
\* every other item with its value and deadline; a Ready call returns only
\* items that are enqueued and returns every enqueued item that is due; a
\* key becomes enqueued only by an Add of that key, and Add, Next and the
\* clock leave every enqueued item as it was.
C8_RemoveCancelsOne ==
    [][/\ (call'.op = "Remove" /\ call'.key \in DOMAIN m) =>
            /\ ContentsAfter = {c \in Contents : c.key # call'.key}
            /\ call'.key \notin DOMAIN m'
       /\ call'.op = "Ready" =>
            /\ SeqSet(popped') \subseteq Contents
            /\ \A c \in Contents : c.t <= call'.t => c \in SeqSet(popped')
       /\ KeysOf(ContentsAfter) \ KeysOf(Contents) # {} =>
            /\ call'.op = "Add"
            /\ KeysOf(ContentsAfter) \ KeysOf(Contents) = {call'.key}
       /\ call'.op \notin {"Remove", "Ready"} =>
            Contents \subseteq ContentsAfter]_vars

\* a Remove has taken out an enqueued key and items of different deadlines
\* are left
C8_Witness ==
    /\ call.op = "Remove"
    /\ call.found
    /\ Len(items) >= 2
    /\ \E i, j \in Slots : At(i).t # At(j).t

MinDeadline == CHOOSE t \in {c.t : c \in Contents} : \A c \in Contents : t <= c.t

\* C9: with an item enqueued, Next asks the clock for a signal after exactly
\* the least deadline of all enqueued items less clock.Now(), so the signal is
\* due at that deadline and at once when the deadline is not after Now().
C9_NextIsEarliest ==
    (call.op = "Next" /\ Len(items) > 0) =>
        /\ ~next.nil
        /\ next.d = MinDeadline - now
        /\ now + next.d = MinDeadline
        /\ (MinDeadline <= now => next.d <= 0)

\* Next was called with three items of different deadlines enqueued, the
\* earliest of them already past
C9_Witness ==
    /\ call.op = "Next"
    /\ Len(items) = 3
    /\ Cardinality({c.t : c \in Contents}) = 3
    /\ next.d < 0

\* C10: Next returns nil exactly when nothing is enqueued, and never fails.
C10_NextNilIffEmpty ==
    call.op = "Next" =>
        /\ next.nil <=> Len(items) = 0
        /\ next.nil <=> pending = {}
        /\ err = ""

\* Next returned nil after the clock had moved
C10_Witness ==
    /\ call.op = "Next"
    /\ next.nil
    /\ now > 0

\* C11: every scheduled operation's stored deadline is the clock.Now() of its
\* Add plus the Delay() that Add obtained, and it stays the same for as long
\* as the operation is scheduled, whatever the clock, the backoff and the
\* other keys do.
C11_DeadlineFixedAtAdd ==
    [][/\ \A i \in 1..Len(items') :
            LET it == obj'[items'[i]]
            IN  /\ it.key \in DOMAIN sched'
                /\ it.t = sched'[it.key].at + sched'[it.key].delay
       /\ \A c \in Contents :
            c.key \in KeysOf(ContentsAfter) => c \in ContentsAfter]_vars

\* the operation with backoff is scheduled, the clock has moved since its Add
\* and its backoff has just been advanced from outside; the plain operation
\* is scheduled too
C11_Witness ==
    /\ call.op = "Delay"
    /\ BKey \in DOMAIN m
    /\ "k0" \in DOMAIN m
    /\ sched[BKey].at < now
    /\ sched[BKey].delay >= minRetryDelay
    /\ e > sched[BKey].delay * 2

\* C12: a successful Schedule.Add returns clock.Now() + op.Delay(), the
\* deadline stored in the queue for op.Key().
C12_AddReturnsDeadline ==
    (call.op = "Add" /\ err = "") =>
        /\ ~added.void
        /\ added.t = sched[call.key].at + sched[call.key].delay
        /\ added.t = obj[m[call.key]].t

\* what the i-th Delay() call on a fresh backoff is said to return
ClaimedDelay(i) ==
    IF i <= 9 THEN <<30, 30, 60, 120, 240, 480, 960, 1800, 1800>>[i] ELSE 1800

\* what the i-th Delay() call on a fresh backoff returns
ReturnedDelay(i) ==
    IF i <= 9 THEN <<0, 30, 60, 120, 240, 480, 960, 1800, 1800>>[i] ELSE 1800

\* C13 as stated: successive Delay() calls on a fresh backoff return 30s,
\* 30s, 1m, 2m, 4m, 8m, 16m, 30m, 30m and 30m from then on.
C13_AsStated ==
    \A i \in 1..Len(delays) : delays[i] = ClaimedDelay(i)

\* C13: successive Delay() calls on a fresh backoff return 0, 30s, 1m, 2m,
\* 4m, 8m, 16m, 30m, 30m and 30m from then on; the call made in the zero
\* state returns zero and stores the floor.
C13_BackoffSequence ==
    /\ \A i \in 1..Len(delays) : delays[i] = ReturnedDelay(i)
    /\ Len(delays) = 1 => e = minRetryDelay

\* Delay() has been called ten times
C13_Witness ==
    /\ Len(delays) >= 10
    /\ delays[10] = maxRetryDelay

\* the times the test expects, for a clock held at T
ExpectedTimes(T) ==
    <<T, T + 30, T + 60, T + 120, T + 240, T + 480, T + 960, T + 1800, T + 1800>>

\* C14: when every Delay() call so far was made by an Add that scheduled the
\* operation (Add, Remove, Add, ...), the n-th Add, n <= 9, made with the
\* clock at T stores the deadline T, T+30s, T+1m, T+2m, T+4m, T+8m, T+16m,
\* T+30m, T+30m.
C14_RescheduleWithBackoff ==
    (call.op = "Add" /\ call.key = BKey /\ err = "" /\ clean /\ Len(delays) <= 9) =>
        /\ obj[m[BKey]].t = ExpectedTimes(now)[Len(delays)]
        /\ call.t = ExpectedTimes(now)[Len(delays)]

\* the ninth Add in a row has scheduled the operation, with the clock off zero
C14_Witness ==
    /\ call.op = "Add"
    /\ call.key = BKey
    /\ err = ""
    /\ clean
    /\ Len(delays) = 9
    /\ now > 0

\* C15: the item in slot i records the index i, so the index Remove reads
\* through the map is the slot that holds the item with that key.
C15_PositionTracking ==
    /\ \A i \in Slots : At(i).i = i
    /\ \A k \in DOMAIN m :
            /\ obj[m[k]].i \in Slots
            /\ items[obj[m[k]].i + 1] = m[k]
            /\ At(obj[m[k]].i).key = k

\* a removal from a heap of three levels has just sifted the moved item down
C15_Witness ==
    /\ call.op = "Remove"
    /\ call.sift = "down"
    /\ Len(items) >= 5

\* C16: every Delay() call returns the duration stored before the call and
\* then stores the floor if that was below the floor, else twice it, clamped
\* to the ceiling.
C16_ReturnsPreUpdate ==
    [][Len(delays') = Len(delays) + 1 =>
        /\ delays'[Len(delays')] = e
        /\ e' = IF e < minRetryDelay THEN minRetryDelay
                ELSE IF 2 * e > maxRetryDelay THEN maxRetryDelay
                ELSE 2 * e]_vars

\* a Delay() call from outside has found the ceiling stored and left it
C16_Witness ==
    /\ call.op = "Delay"
    /\ Len(delays) >= 9
    /\ delays[Len(delays)] = maxRetryDelay
    /\ e = maxRetryDelay

\* C17: after one or more Delay() calls the stored duration is between the
\* floor and the ceiling, the returned values never decrease and never exceed
\* the ceiling, doubling the stored duration stays within time.Duration, and
\* a stored ceiling stays.
C17_BackoffBounds ==
    [][Len(delays') >= 1 =>
        /\ minRetryDelay <= e' /\ e' <= maxRetryDelay
        /\ \A i, j \in 1..Len(delays') : i <= j => delays'[i] <= delays'[j]
        /\ \A i \in 1..Len(delays') : delays'[i] <= maxRetryDelay
        /\ (2 * e) \div 60 < MaxDurationMinutes
        /\ (2 * e') \div 60 < MaxDurationMinutes
        /\ (e = maxRetryDelay => e' = maxRetryDelay)]_vars

\* the ceiling is stored and was returned by the last two calls
C17_Witness ==
    /\ e = maxRetryDelay
    /\ Len(delays) >= 9
    /\ delays[Len(delays) - 1] = maxRetryDelay
    /\ delays[1] = 0

\* the value an Add step passed to the queue
GivenValue ==
    IF call'.key = BKey THEN BOp
    ELSE [key |-> call'.key, delay |-> call'.t - now]

\* C18: Add panics exactly when its key is scheduled; for a key that was
\* removed or returned, or never added, it enqueues one new item with the
\* given value and deadline, the only item with that key.
C18_KeyReuse ==
    [][call'.op = "Add" =>
        /\ (err' = "duplicate key") <=> (call'.key \in pending)
        /\ call'.key \notin pending =>
            /\ err' = ""
            /\ call'.key \notin KeysOf(Contents)
            /\ ContentsAfter = Contents \cup
                    {[key |-> call'.key, value |-> GivenValue, t |-> call'.t]}
            /\ Len(items') = Len(items) + 1
            /\ call'.key \in DOMAIN m'
            /\ Entry(obj'[m'[call'.key]]) =
                    [key |-> call'.key, value |-> GivenValue, t |-> call'.t]]_vars

\* the operation with backoff has been scheduled for the third time in a
\* row, with a new deadline, beside the plain operation
C18_Witness ==
    /\ call.op = "Add"
    /\ call.key = BKey
    /\ err = ""
    /\ clean
    /\ Len(delays) = 3
    /\ "k0" \in DOMAIN m
    /\ obj[m[BKey]].t = now + 60

ContentsOf(q) == {Entry(q.o[q.s[i]]) : i \in 1..Len(q.s)}

\* C19: from every state, for every key k and time t, Ready(t) then
\* Remove(k) and Remove(k) then Ready(t) leave the same items enqueued; the
\* Ready results differ only by k's item, which the first order returns when
\* k is due.
C19_FireCancelRace ==
    \A k \in Keys, t \in Times :
        LET r1 == QueueReady(Q, t)
            a  == QueueRemove(r1.q, k)
            r2 == QueueReady(QueueRemove(Q, k), t)
            b  == r2.q
        IN  /\ ContentsOf(a) = ContentsOf(b)
            /\ DOMAIN a.m = DOMAIN b.m
            /\ Len(a.s) = Len(b.s)
            /\ SeqSet(r2.popped) = {c \in SeqSet(r1.popped) : c.key # k}
            /\ \A c \in Contents :
                    (c.key = k /\ c.t <= t) => c \in SeqSet(r1.popped)

\* a Ready call has just returned an item and left two enqueued, one of
\* which is due at a later time
C19_Witness ==
    /\ call.op = "Ready"
    /\ Len(popped) >= 1
    /\ Len(items) = 2
    /\ \E i, j \in Slots : At(i).t < At(j).t /\ At(i).t \in Times

\* C20: Schedule.Add calls op.Delay() once, before the queue checks the key:
\* an Add that panics on a scheduled key has advanced the backoff by one
\* call and left the slice, the items and the map unchanged.
C20_DelayBeforeDuplicateCheck ==
    [][(call'.op = "Add" /\ call'.key = BKey) =>
        /\ Len(delays') = Len(delays) + 1
        /\ e' = Delay(e).e
        /\ BKey \in DOMAIN m =>
            /\ err' = "duplicate key"
            /\ items' = items
            /\ obj' = obj
            /\ m' = m]_vars

\* an Add of the scheduled operation has panicked and advanced its backoff
\* past the delay it is scheduled with
C20_Witness ==
    /\ call.op = "Add"
    /\ call.key = BKey
    /\ err = "duplicate key"
    /\ BKey \in DOMAIN m
    /\ ~clean
    /\ sched[BKey].delay = 0
    /\ e = 2 * minRetryDelay

====
